---- MODULE Spec2Model ----
(***************************************************************************)
(* Model of the elevator simulation: Controller, Door, Elevator, Person    *)
(* (elevator.py) and the per-tick orchestration Program.next (run.py).     *)
(*                                                                         *)
(* An elevator is a record with the fields of class Elevator; the door is  *)
(* its is_open flag.  A person is a record [id, enter_floor, exit_floor];  *)
(* ids are unique, so Python's identity comparison of Person objects       *)
(* (list.remove, ==) is comparison of ids.  An Optional[int] is a sequence *)
(* of length 0 (None) or 1.                                                *)
(***************************************************************************)
EXTENDS Integers, Sequences, FiniteSets

VARIABLES
    elevators,             \* Controller.elevators: sequence of elevator records
    waiting_for_elevator,  \* Program.waiting_for_elevator (the same list as Program.people)
    counter,               \* Person.COUNTER
    pc,                    \* position inside Program.next; "idle" between ticks
    idx,                   \* index of the dispatch loop of Program.next (run.py:92)
    last,                  \* the last call made and how it ended
    called,                \* ids of the persons for whom call_elevator_for returned an elevator
    blocked,               \* the floor-step that last failed on an open door, until retried
    ticks                  \* calls of Program.next completed, where they are counted

vars == <<elevators, waiting_for_elevator, counter, pc, idx, last, called, blocked, ticks>>

(***************************************************************************)
(* Bounds of the model.                                                    *)
(***************************************************************************)
MaxPeople == 2        \* persons ever created
MaxPeopleDirect == 1  \* persons ever created where direct calls are made too
MaxTicks == 6         \* ticks counted in the run of a scenario
MaxElevators == 2     \* elevators added where elevators are constructed from any bounds

\* The floors a person may enter and exit at.
PersonFloors == -1..2
PersonIds == 1..MaxPeople

(***************************************************************************)
(* Values.                                                                 *)
(***************************************************************************)
None == << >>
Some(x) == <<x>>

UP == "UP"
DOWN == "DOWN"
NOWHERE == "NOWHERE"

\* Person.__init__: floors coerced to integers, COUNTER incremented, id = COUNTER.
Person(id, enter_floor, exit_floor) ==
    [id |-> id, enter_floor |-> enter_floor, exit_floor |-> exit_floor]

\* A value passed as a bound of an elevator: its Python type and twice its
\* numeric value (a float may lie half way between two integers; a str has
\* no numeric value and its comparison with a number raises TypeError).
IntValue(n) == [type |-> "int", twice |-> 2 * n]
FloatValue(twice) == [type |-> "float", twice |-> twice]
StrValue == [type |-> "str", twice |-> 0]

BoundInts == -2..2
BoundValues ==
    { IntValue(n) : n \in BoundInts }
        \cup { FloatValue(-1), FloatValue(1), FloatValue(2), FloatValue(3) }
        \cup { StrValue }

\* The value as the fields of the elevator hold it: a Python int is an integer.
Stored(v) == IF v.type = "int" THEN v.twice \div 2 ELSE v

\* Elevator.validate: "ok" or the error raised.  The first test compares the
\* type of LOWEST_FLOOR twice.
validate(lowest_floor, highest_floor) ==
    IF lowest_floor.type # "int" \/ lowest_floor.type # "int" THEN "ValueError"
    ELSE IF lowest_floor.twice > 0 THEN "ValueError"
    ELSE IF highest_floor.type = "str" THEN "TypeError"
    ELSE IF highest_floor.twice <= 0 THEN "ValueError"
    ELSE IF lowest_floor.twice >= highest_floor.twice THEN "ValueError"
    ELSE "ok"

\* Elevator.__init__: closed door, ground floor, no destination, nobody aboard.
Elevator(lowest_floor, highest_floor) ==
    [LOWEST_FLOOR |-> lowest_floor, HIGHEST_FLOOR |-> highest_floor,
     floor |-> 0, moving_to |-> None, is_open |-> FALSE, people |-> << >>]

\* The controllers set up before the first tick: the shapes of scenario_1..3
\* (one lift; two lifts with different bounds), a lift that serves only some
\* of the floors persons ask for, and a controller left empty.
Scenarios ==
    { << >>,
      << Elevator(-1, 2) >>,
      << Elevator(0, 1) >>,
      << Elevator(-1, 1), Elevator(0, 2) >> }

\* Elevator.__init__ raises when validate does: only valid elevators exist.
ValidScenarios ==
    { s \in Scenarios :
        \A i \in 1..Len(s) :
            validate(IntValue(s[i].LOWEST_FLOOR), IntValue(s[i].HIGHEST_FLOOR)) = "ok" }

(***************************************************************************)
(* Python list helpers.                                                    *)
(***************************************************************************)
\* list.remove(x): drops the first element equal to x.
RECURSIVE ListRemove(_, _)
ListRemove(s, x) ==
    IF s = << >> THEN << >>
    ELSE IF Head(s).id = x.id THEN Tail(s)
    ELSE <<Head(s)>> \o ListRemove(Tail(s), x)

Abs(n) == IF n < 0 THEN 0 - n ELSE n

\* Below, CHOOSE y \in { F(x) : x \in {v} } : TRUE is F(v) with v evaluated
\* once: the result of a call, bound to a local variable.

(***************************************************************************)
(* Elevator properties.                                                    *)
(***************************************************************************)
\* bool(x) of an Optional[int]: None and 0 are false.
Truthy(m) == m # None /\ m[1] # 0

is_free(e) == ~Truthy(e.moving_to)

stops(e) == [i \in 1..Len(e.people) |-> e.people[i].exit_floor]

direction(e) ==
    IF ~Truthy(e.moving_to) THEN NOWHERE
    ELSE IF e.moving_to[1] > e.floor THEN UP
    ELSE IF e.moving_to[1] < e.floor THEN DOWN
    ELSE NOWHERE

\* move_to that does not assign the destination.
move_to_ignored(e, floor) == e

\* stop_queue without its filter by the side of the oldest request.
stop_queue_unfiltered(e) ==
    IF stops(e) = << >> THEN [some |-> FALSE, q |-> << >>]
    ELSE [some |-> TRUE, q |-> stops(e)]

\* Optional[List[int]]: [some |-> FALSE] is None.
stop_queue(e) ==
    LET filterUp(floor) == floor > e.floor
        filterDown(floor) == floor < e.floor
    IN  IF stops(e) = << >> THEN [some |-> FALSE, q |-> << >>]
        ELSE LET oldest_request == stops(e)[1]
             IN  [some |-> TRUE,
                  q |-> IF oldest_request > e.floor THEN SelectSeq(stops(e), filterUp)
                        ELSE IF oldest_request < e.floor THEN SelectSeq(stops(e), filterDown)
                        ELSE << >>]

move_to(e, floor) == [e EXCEPT !.moving_to = Some(floor)]

open_door(e) == [e EXCEPT !.is_open = TRUE]

close_door(e) == [e EXCEPT !.is_open = FALSE]

\* up_1 without its check of the highest floor.
up_1_unbounded(e) ==
    IF e.is_open THEN [e |-> e, err |-> "door"]
    ELSE [e |-> [e EXCEPT !.floor = e.floor + 1], err |-> "ok"]

\* down_1 without its check of the door.
down_1_door_ignored(e) ==
    IF e.floor - 1 < e.LOWEST_FLOOR THEN [e |-> e, err |-> "bound"]
    ELSE [e |-> [e EXCEPT !.floor = e.floor - 1], err |-> "ok"]

\* down_1 refusing the step already one floor above the lowest floor.
down_1_bound_early(e) ==
    IF e.is_open THEN [e |-> e, err |-> "door"]
    ELSE IF e.floor - 1 <= e.LOWEST_FLOOR THEN [e |-> e, err |-> "bound"]
    ELSE [e |-> [e EXCEPT !.floor = e.floor - 1], err |-> "ok"]

\* A call that may raise returns [e |-> the elevator afterwards, err |-> "ok" or the error].
up_1(e) ==
    IF e.is_open THEN [e |-> e, err |-> "door"]
    ELSE IF e.floor + 1 > e.HIGHEST_FLOOR THEN [e |-> e, err |-> "bound"]
    ELSE [e |-> [e EXCEPT !.floor = e.floor + 1], err |-> "ok"]

down_1(e) ==
    IF e.is_open THEN [e |-> e, err |-> "door"]
    ELSE IF e.floor - 1 < e.LOWEST_FLOOR THEN [e |-> e, err |-> "bound"]
    ELSE [e |-> [e EXCEPT !.floor = e.floor - 1], err |-> "ok"]

\* move that leaves an open door open.
move_door_left_open(e) ==
    LET sq == stop_queue(e)
    IN  CHOOSE y \in
            { IF direction(e2) = UP THEN up_1(e2)
              ELSE IF direction(e2) = DOWN THEN down_1(e2)
              ELSE [e |-> [e2 EXCEPT !.moving_to = None], err |-> "ok"] :
              e2 \in { IF sq.some /\ sq.q # << >>
                       THEN [e EXCEPT !.moving_to = Some(sq.q[Len(sq.q)])]
                       ELSE e } } : TRUE

move(e) ==
    LET e1 == IF e.is_open THEN close_door(e) ELSE e
        sq == stop_queue(e1)
    IN  CHOOSE y \in
            { IF direction(e2) = UP THEN up_1(e2)
              ELSE IF direction(e2) = DOWN THEN down_1(e2)
              ELSE [e |-> [e2 EXCEPT !.moving_to = None], err |-> "ok"] :
              e2 \in { IF sq.some /\ sq.q # << >>
                       THEN [e1 EXCEPT !.moving_to = Some(sq.q[Len(sq.q)])]
                       ELSE e1 } } : TRUE

(***************************************************************************)
(* Controller.                                                             *)
(***************************************************************************)
\* Controller.free_elevators: the indices of the free elevators, in order;
\* raises when the controller has no elevators.
free_elevators(els) ==
    IF els = << >> THEN [free |-> << >>, err |-> "no_elevators"]
    ELSE [free |-> SelectSeq([i \in 1..Len(els) |-> i], LAMBDA i : is_free(els[i])),
          err |-> "ok"]

\* elevator_for without its check of the exit floor against the bounds.
RECURSIVE elevator_at_floor_from(_, _, _)
elevator_at_floor_from(els, person, i) ==
    IF i > Len(els) THEN 0
    ELSE IF els[i].floor = person.enter_floor THEN i
    ELSE elevator_at_floor_from(els, person, i + 1)

elevator_for_any_bounds(els, person) == elevator_at_floor_from(els, person, 1)

\* Controller.elevator_for: the index of the elevator returned, 0 for None.
RECURSIVE elevator_for_from(_, _, _)
elevator_for_from(els, person, i) ==
    IF i > Len(els) THEN 0
    ELSE IF /\ els[i].floor = person.enter_floor
            /\ els[i].LOWEST_FLOOR <= person.exit_floor
            /\ person.exit_floor <= els[i].HIGHEST_FLOOR
         THEN i
         ELSE elevator_for_from(els, person, i + 1)

elevator_for(els, person) == elevator_for_from(els, person, 1)

\* The loop of call_elevator_for without its checks of the person's floors
\* against the bounds.
RECURSIVE best_elevator_any_floor(_, _, _, _, _, _)
best_elevator_any_floor(els, free, person, k, best, min_value) ==
    IF k > Len(free) THEN best
    ELSE LET elevator == els[free[k]]
             floor_difference == Abs(person.enter_floor - elevator.floor)
         IN  IF min_value = None \/ floor_difference < min_value[1]
             THEN best_elevator_any_floor(els, free, person, k + 1, free[k],
                                          Some(floor_difference))
             ELSE best_elevator_any_floor(els, free, person, k + 1, best, min_value)

\* The loop of call_elevator_for over the free elevators from position k on;
\* best = 0 is None, min_value = None is float("inf").
RECURSIVE best_elevator_from(_, _, _, _, _, _)
best_elevator_from(els, free, person, k, best, min_value) ==
    IF k > Len(free) THEN best
    ELSE LET elevator == els[free[k]]
             floor_difference == Abs(person.enter_floor - elevator.floor)
         IN  IF /\ elevator.LOWEST_FLOOR <= person.enter_floor
                /\ person.enter_floor <= elevator.HIGHEST_FLOOR
                /\ elevator.LOWEST_FLOOR <= person.exit_floor
                /\ person.exit_floor <= elevator.HIGHEST_FLOOR
                /\ (min_value = None \/ floor_difference < min_value[1])
             THEN best_elevator_from(els, free, person, k + 1, free[k],
                                     Some(floor_difference))
             ELSE best_elevator_from(els, free, person, k + 1, best, min_value)

\* Controller.call_elevator_for: [els |-> the elevators afterwards,
\* sel |-> the index of the elevator returned (0 for None), err].
call_elevator_for(els, person) ==
    LET fe == free_elevators(els)
        best_elevator == best_elevator_from(els, fe.free, person, 1, 0, None)
    IN  IF fe.err # "ok" THEN [els |-> els, sel |-> 0, err |-> fe.err]
        ELSE IF best_elevator = 0 THEN [els |-> els, sel |-> 0, err |-> "ok"]
        ELSE [els |-> [els EXCEPT ![best_elevator] = move_to(@, person.enter_floor)],
              sel |-> best_elevator, err |-> "ok"]

\* Controller.move_elevators from elevator i on: an error raised by one
\* elevator's move ends the loop.
RECURSIVE move_elevators_from(_, _)
move_elevators_from(els, i) ==
    IF i > Len(els) THEN [els |-> els, err |-> "ok", e |-> 0]
    ELSE CHOOSE y \in
             { IF r.err # "ok"
               THEN [els |-> [els EXCEPT ![i] = r.e], err |-> r.err, e |-> i]
               ELSE move_elevators_from([els EXCEPT ![i] = r.e], i + 1) :
               r \in { move(els[i]) } } : TRUE

move_elevators(els) == move_elevators_from(els, 1)

(***************************************************************************)
(* Program.                                                                *)
(***************************************************************************)
\* remove_person_to_lift that keeps the destination when the last person leaves.
remove_person_keeps_destination(e, person) ==
    LET e1 == IF ~e.is_open THEN open_door(e) ELSE e
    IN  [e1 EXCEPT !.people = ListRemove(e1.people, person)]

\* Program.remove_person_to_lift.
remove_person_to_lift(e, person) ==
    LET e1 == IF ~e.is_open THEN open_door(e) ELSE e
        e2 == [e1 EXCEPT !.people = ListRemove(e1.people, person)]
    IN  IF e2.people = << >> THEN [e2 EXCEPT !.moving_to = None] ELSE e2

\* run.py:81-82, the loop over the generator people_leaving: the generator
\* walks elevator.people by position while the loop body removes from it.
RECURSIVE remove_leaving_from(_, _)
remove_leaving_from(e, i) ==
    IF i > Len(e.people) THEN e
    ELSE IF e.people[i].exit_floor = e.floor
         THEN CHOOSE y \in
                  { remove_leaving_from(e1, i + 1) :
                    e1 \in { remove_person_to_lift(e, e.people[i]) } } : TRUE
         ELSE remove_leaving_from(e, i + 1)

\* add_person_to_lift without the removal from the waiting list.
add_person_kept_waiting(els, waiting, i, person) ==
    LET e1 == IF ~els[i].is_open THEN open_door(els[i]) ELSE els[i]
        e2 == [e1 EXCEPT !.people = Append(e1.people, person)]
    IN  [els |-> [els EXCEPT ![i] = e2], waiting |-> waiting]

\* Program.add_person_to_lift: [els, waiting] afterwards.
add_person_to_lift(els, waiting, i, person) ==
    LET e1 == IF ~els[i].is_open THEN open_door(els[i]) ELSE els[i]
        e2 == [e1 EXCEPT !.people = Append(e1.people, person)]
    IN  [els |-> [els EXCEPT ![i] = e2], waiting |-> ListRemove(waiting, person)]

\* run.py:86-88, the loop over waiting_for_elevator by position while the
\* loop body removes from it.
RECURSIVE board_from(_, _, _)
board_from(els, waiting, i) ==
    IF i > Len(waiting) THEN [els |-> els, waiting |-> waiting]
    ELSE LET elevator == elevator_for(els, waiting[i])
         IN  IF elevator # 0
             THEN CHOOSE y \in
                      { board_from(r.els, r.waiting, i + 1) :
                        r \in { add_person_to_lift(els, waiting, elevator, waiting[i]) } } : TRUE
             ELSE board_from(els, waiting, i + 1)

\* A call made: the method, the elevator and the person it concerns (0 for
\* none; for a Controller method e is the elevator returned), how it ended,
\* and whether it retries a floor-step that an open door had refused.
Call(op, e, p, res) ==
    [op |-> op, e |-> e, p |-> p, res |-> res, retry |-> FALSE, args |-> << >>]

Aboard(els) == UNION { { els[i].people[j].id : j \in 1..Len(els[i].people) } : i \in 1..Len(els) }

Init ==
    /\ elevators \in ValidScenarios
    /\ waiting_for_elevator = << >>
    /\ counter = 0
    /\ pc = "idle"
    /\ idx = 0
    /\ last = Call("init", 0, 0, "ok")
    /\ called = {}
    /\ blocked = None
    /\ ticks = 0

\* Program.enter_a_person: a new Person appended to Program.people, which is
\* the list waiting_for_elevator.
enter_a_person(enter_floor, exit_floor) ==
    /\ pc = "idle"
    /\ counter < MaxPeople
    /\ counter' = counter + 1
    /\ waiting_for_elevator' =
           Append(waiting_for_elevator, Person(counter + 1, enter_floor, exit_floor))
    /\ last' = Call("enter_a_person", 0, counter + 1, "ok")
    /\ blocked' = None
    /\ UNCHANGED <<elevators, pc, idx, called>>

\* Program.next, run.py:80-82: people leave at the current floors.
next_leave ==
    /\ pc = "idle"
    /\ elevators' = [i \in 1..Len(elevators) |-> remove_leaving_from(elevators[i], 1)]
    /\ pc' = "left"
    /\ last' = Call("leave", 0, 0, "ok")
    /\ blocked' = None
    /\ UNCHANGED <<waiting_for_elevator, counter, idx, called>>

\* Program.next, run.py:86-88: people waiting enter a lift at their floor.
next_board ==
    /\ pc = "left"
    /\ LET r == board_from(elevators, waiting_for_elevator, 1)
       IN  /\ elevators' = r.els
           /\ waiting_for_elevator' = r.waiting
           /\ called' = called \ Aboard(r.els)
    /\ pc' = "call"
    /\ idx' = 1
    /\ last' = Call("board", 0, 0, "ok")
    /\ UNCHANGED <<counter, blocked>>

\* Program.next, run.py:92-96: one iteration of the loop calling the elevator
\* for the person at position idx.  An error raised ends the tick.
next_call ==
    /\ pc = "call"
    /\ idx <= Len(waiting_for_elevator)
    /\ LET person == waiting_for_elevator[idx]
           r == call_elevator_for(elevators, person)
       IN  /\ elevators' = r.els
           /\ last' = Call("call_elevator_for", r.sel, person.id, r.err)
           /\ called' = IF r.sel # 0 THEN called \cup {person.id} ELSE called
           /\ pc' = IF r.err = "ok" THEN "call" ELSE "idle"
           /\ idx' = IF r.err = "ok" THEN idx + 1 ELSE 0
    /\ UNCHANGED <<waiting_for_elevator, counter, blocked>>

\* Program.next, run.py:100: the elevators are actioned.
next_move ==
    /\ pc = "call"
    /\ idx > Len(waiting_for_elevator)
    /\ LET r == move_elevators(elevators)
       IN  /\ elevators' = r.els
           /\ last' = Call("move_elevators", r.e, 0, r.err)
    /\ pc' = "idle"
    /\ idx' = 0
    /\ UNCHANGED <<waiting_for_elevator, counter, called, blocked>>

(***************************************************************************)
(* Direct calls of the Elevator, Door and Controller methods between       *)
(* ticks, as the unit tests make them.                                     *)
(***************************************************************************)
\* A floor-step on elevator i: op is "up_1" or "down_1".
FloorStep(i, op) ==
    /\ pc = "idle"
    /\ LET r == IF op = "up_1" THEN up_1(elevators[i]) ELSE down_1(elevators[i])
       IN  /\ elevators' = [elevators EXCEPT ![i] = r.e]
           /\ last' = [Call(op, i, 0, r.err) EXCEPT !.retry = (blocked = <<i, op>>)]
           /\ blocked' = IF r.err = "door" THEN <<i, op>> ELSE None
    /\ UNCHANGED <<waiting_for_elevator, counter, pc, idx, called>>

Up1(i) == FloorStep(i, "up_1")

Down1(i) == FloorStep(i, "down_1")

\* Elevator.move called on elevator i alone.
Move(i) ==
    /\ pc = "idle"
    /\ LET r == move(elevators[i])
       IN  /\ elevators' = [elevators EXCEPT ![i] = r.e]
           /\ last' = Call("move", i, 0, r.err)
    /\ blocked' = None
    /\ UNCHANGED <<waiting_for_elevator, counter, pc, idx, called>>

\* Door.open / Elevator.open_door.
DoorOpen(i) ==
    /\ pc = "idle"
    /\ elevators' = [elevators EXCEPT ![i] = open_door(@)]
    /\ last' = Call("open", i, 0, "ok")
    /\ blocked' = None
    /\ UNCHANGED <<waiting_for_elevator, counter, pc, idx, called>>

\* Door.close / Elevator.close_door.
DoorClose(i) ==
    /\ pc = "idle"
    /\ elevators' = [elevators EXCEPT ![i] = close_door(@)]
    /\ last' = Call("close", i, 0, "ok")
    /\ blocked' = IF blocked # None /\ blocked[1] = i THEN blocked ELSE None
    /\ UNCHANGED <<waiting_for_elevator, counter, pc, idx, called>>

\* Elevator.move_to with any floor.
MoveTo(i, floor) ==
    /\ pc = "idle"
    /\ elevators' = [elevators EXCEPT ![i] = move_to(@, floor)]
    /\ last' = Call("move_to", i, 0, "ok")
    /\ blocked' = None
    /\ UNCHANGED <<waiting_for_elevator, counter, pc, idx, called>>

\* Controller.call_elevator_for for the waiting person at position k.
CallElevatorFor(k) ==
    /\ pc = "idle"
    /\ LET person == waiting_for_elevator[k]
           r == call_elevator_for(elevators, person)
       IN  /\ elevators' = r.els
           /\ last' = Call("call_elevator_for", r.sel, person.id, r.err)
    /\ blocked' = None
    /\ UNCHANGED <<waiting_for_elevator, counter, pc, idx, called>>

\* Controller.elevator_for for the waiting person at position k.
ElevatorFor(k) ==
    /\ pc = "idle"
    /\ LET person == waiting_for_elevator[k]
       IN  last' = Call("elevator_for", elevator_for(elevators, person), person.id, "ok")
    /\ blocked' = None
    /\ UNCHANGED <<elevators, waiting_for_elevator, counter, pc, idx, called>>

\* The ticks are counted only in the run of a scenario (NextScenario).
Tick == (next_leave \/ next_board \/ next_call \/ next_move) /\ UNCHANGED ticks

Next ==
    \/ /\ \E enter_floor \in PersonFloors, exit_floor \in PersonFloors :
              enter_a_person(enter_floor, exit_floor)
       /\ UNCHANGED ticks
    \/ next_leave /\ UNCHANGED ticks
    \/ next_board /\ UNCHANGED ticks
    \/ next_call /\ UNCHANGED ticks
    \/ next_move /\ UNCHANGED ticks

Spec == Init /\ [][Next]_vars

\* The orchestration together with the direct calls.
NextAPI ==
    \/ /\ \E enter_floor \in PersonFloors, exit_floor \in PersonFloors :
              counter < MaxPeopleDirect /\ enter_a_person(enter_floor, exit_floor)
       /\ UNCHANGED ticks
    \/ next_leave /\ UNCHANGED ticks
    \/ next_board /\ UNCHANGED ticks
    \/ next_call /\ UNCHANGED ticks
    \/ next_move /\ UNCHANGED ticks
    \/ /\ \E i \in 1..Len(elevators) : Up1(i)
       /\ UNCHANGED ticks
    \/ /\ \E i \in 1..Len(elevators) : Down1(i)
       /\ UNCHANGED ticks
    \/ /\ \E i \in 1..Len(elevators) : Move(i)
       /\ UNCHANGED ticks
    \/ /\ \E i \in 1..Len(elevators) : DoorOpen(i)
       /\ UNCHANGED ticks
    \/ /\ \E i \in 1..Len(elevators) : DoorClose(i)
       /\ UNCHANGED ticks
    \/ /\ \E i \in 1..Len(elevators), floor \in PersonFloors : MoveTo(i, floor)
       /\ UNCHANGED ticks
    \/ /\ \E k \in 1..Len(waiting_for_elevator) : CallElevatorFor(k)
       /\ UNCHANGED ticks
    \/ /\ \E k \in 1..Len(waiting_for_elevator) : ElevatorFor(k)
       /\ UNCHANGED ticks

\* Direct calls are made on a controller of one elevator.
InitAPI == Init /\ elevators = << Elevator(-1, 2) >>

SpecAPI == InitAPI /\ [][NextAPI]_vars

\* A controller of two elevators whose destinations are also set directly
\* (Elevator.move_to accepts any floor), with the orchestration running.
NextTwo ==
    \/ /\ \E enter_floor \in PersonFloors, exit_floor \in PersonFloors :
              counter < MaxPeopleDirect /\ enter_a_person(enter_floor, exit_floor)
       /\ UNCHANGED ticks
    \/ next_leave /\ UNCHANGED ticks
    \/ next_board /\ UNCHANGED ticks
    \/ next_call /\ UNCHANGED ticks
    \/ next_move /\ UNCHANGED ticks
    \/ /\ \E i \in 1..Len(elevators), floor \in PersonFloors : MoveTo(i, floor)
       /\ UNCHANGED ticks

InitTwo == Init /\ Len(elevators) = 2

SpecTwo == InitTwo /\ [][NextTwo]_vars

\* scenario_1 with a single person: the lift of bounds (-1, 4) and one person
\* waiting, whose floors are any the lift serves; Program.next is called again
\* and again and its calls are counted.
ScenarioFloors == -1..4

InitScenario ==
    /\ elevators = << Elevator(-1, 4) >>
    /\ \E enter_floor \in ScenarioFloors, exit_floor \in ScenarioFloors :
           waiting_for_elevator = << Person(1, enter_floor, exit_floor) >>
    /\ counter = 1
    /\ pc = "idle"
    /\ idx = 0
    /\ last = Call("init", 0, 0, "ok")
    /\ called = {}
    /\ blocked = None
    /\ ticks = 0

NextScenario ==
    \/ next_leave /\ UNCHANGED ticks
    \/ next_board /\ UNCHANGED ticks
    \/ next_call /\ UNCHANGED ticks
    \/ next_move /\ ticks' = IF ticks < MaxTicks THEN ticks + 1 ELSE ticks

SpecScenario == InitScenario /\ [][NextScenario]_vars

\* Elevators are constructed from any bounds and added to a controller that
\* starts empty (controller.add_elevator(Elevator(...)), run.py:134-135); a
\* construction that raises adds nothing.
AddElevator(lowest_floor, highest_floor) ==
    /\ pc = "idle"
    /\ Len(elevators) < MaxElevators
    /\ LET err == validate(lowest_floor, highest_floor)
       IN  /\ elevators' =
                  IF err = "ok"
                  THEN Append(elevators,
                              Elevator(Stored(lowest_floor), Stored(highest_floor)))
                  ELSE elevators
           /\ last' = [Call("Elevator", IF err = "ok" THEN Len(elevators) + 1 ELSE 0, 0, err)
                          EXCEPT !.args = <<lowest_floor, highest_floor>>]
    /\ blocked' = None
    /\ UNCHANGED <<waiting_for_elevator, counter, pc, idx, called>>

NextConstruct ==
    \E lowest_floor \in BoundValues, highest_floor \in BoundValues :
        AddElevator(lowest_floor, highest_floor) /\ UNCHANGED ticks

InitConstruct == Init /\ elevators = << >>

SpecConstruct == InitConstruct /\ [][NextConstruct]_vars

\* Ticks keep coming: Program.next is called again and again.
FairSpec == Spec /\ WF_vars(Tick)

(***************************************************************************)
(* Properties.                                                             *)
(***************************************************************************)
InBounds(e, floor) == e.LOWEST_FLOOR <= floor /\ floor <= e.HIGHEST_FLOOR

\* C1: after any sequence of ticks and of direct up_1, down_1 and move calls
\* (and of the other direct calls), every elevator's floor lies within
\* [LOWEST_FLOOR, HIGHEST_FLOOR].
C1_FloorWithinBounds ==
    \A i \in 1..Len(elevators) : InBounds(elevators[i], elevators[i].floor)

\* C1 witness: an elevator stands at its highest floor and a further up-step
\* has just been refused there.
C1_Witness ==
    /\ last.op = "up_1"
    /\ last.res = "bound"
    /\ elevators[last.e].floor = elevators[last.e].HIGHEST_FLOOR

\* The step of elevator i named op would stay within the elevator's bounds.
StepStaysInBounds(e, op) ==
    IF op = "up_1" THEN e.floor + 1 <= e.HIGHEST_FLOOR ELSE e.floor - 1 >= e.LOWEST_FLOOR

\* A floor-step made with the door open fails on the door and leaves the floor.
DoorGating ==
    \A i \in 1..Len(elevators) :
        (/\ pc = "idle" /\ elevators[i].is_open
         /\ last' # last /\ last'.op \in {"up_1", "down_1"} /\ last'.e = i)
        => (last'.res = "door" /\ elevators'[i].floor = elevators[i].floor)

\* The floor of an elevator changes only with its door closed.
MovesWithDoorClosed ==
    \A i \in 1..Len(elevators) :
        elevators'[i].floor # elevators[i].floor
        => (~elevators'[i].is_open /\ (last'.op \in {"up_1", "down_1"} => ~elevators[i].is_open))

\* C2 as stated: a floor-step with the door open fails with an error and leaves
\* the floor unchanged; once the door is closed again the same step succeeds;
\* the floor changes only with the door closed.
C2_Original ==
    [][/\ DoorGating
       /\ MovesWithDoorClosed
       /\ (last'.retry /\ ~elevators[last'.e].is_open) => last'.res = "ok"]_vars

\* C2 as amended: a floor-step with the door open fails with an error and
\* leaves the floor unchanged; once the door is closed again the same step
\* succeeds when it stays within the elevator's bounds, and otherwise fails on
\* the bound, leaving the floor unchanged; the floor changes only with the
\* door closed.
C2_DoorGating ==
    [][/\ DoorGating
       /\ MovesWithDoorClosed
       /\ (last'.retry /\ ~elevators[last'.e].is_open) =>
              IF StepStaysInBounds(elevators[last'.e], last'.op)
              THEN /\ last'.res = "ok"
                   /\ elevators'[last'.e].floor # elevators[last'.e].floor
              ELSE /\ last'.res = "bound"
                   /\ elevators'[last'.e].floor = elevators[last'.e].floor]_vars

\* C2 witness: a down-step that an open door had refused has been made again
\* with the door closed, and succeeded.
C2_Witness ==
    /\ last.op = "down_1"
    /\ last.retry
    /\ last.res = "ok"

\* C3: whenever call_elevator_for succeeds for a waiting person in a tick,
\* then under repeated ticks an elevator arrives at the person's floor and the
\* person boards it in a later tick.
C3_CalledEventuallyBoards ==
    \A p \in PersonIds : (p \in called) ~> (p \in Aboard(elevators))

\* The direction the destination stands in: NOWHERE exactly when it is unset
\* or equal to the current floor.
DirectionOfDestination(e) ==
    IF e.moving_to = None THEN NOWHERE
    ELSE IF e.moving_to[1] > e.floor THEN UP
    ELSE IF e.moving_to[1] < e.floor THEN DOWN
    ELSE NOWHERE

\* C4: for every current floor and every destination within the elevator's
\* bounds, direction is UP when the destination is above the current floor,
\* DOWN when it is below, and NOWHERE exactly when it is unset or equal.
C4_Direction ==
    \A i \in 1..Len(elevators) :
        (elevators[i].moving_to # None => InBounds(elevators[i], elevators[i].moving_to[1]))
        => direction(elevators[i]) = DirectionOfDestination(elevators[i])

\* C5: an elevator is free iff its destination is unset; after move_to(f),
\* for every floor f within bounds, it is not free and free_elevators does not
\* return it.
C5_FreeIffUnset ==
    \A i \in 1..Len(elevators) :
        /\ is_free(elevators[i]) <=> (elevators[i].moving_to = None)
        /\ (elevators[i].moving_to # None) =>
               \A k \in 1..Len(free_elevators(elevators).free) :
                   free_elevators(elevators).free[k] # i

Range(seq) == { seq[k] : k \in 1..Len(seq) }

\* An elevator with no committed destination.
Uncommitted(e) == e.moving_to = None

\* The elevators a call for the person may select: free, with bounds that
\* cover the floor the person enters at and the floor the person exits at.
Eligible(els, person) ==
    { i \in 1..Len(els) :
        /\ Uncommitted(els[i])
        /\ InBounds(els[i], person.enter_floor)
        /\ InBounds(els[i], person.exit_floor) }

Distance(els, person, i) == Abs(person.enter_floor - els[i].floor)

\* The nearest of a non-empty set of elevators, the first in order on ties.
Nearest(els, person, among) ==
    CHOOSE i \in among :
        \A j \in among :
            \/ Distance(els, person, i) < Distance(els, person, j)
            \/ Distance(els, person, i) = Distance(els, person, j) /\ i <= j

\* The step is a call of call_elevator_for, for the waiting person last'.p.
IsCall == last'.op = "call_elevator_for" /\ (last' # last \/ idx' # idx)

CalledPerson == CHOOSE x \in Range(waiting_for_elevator) : x.id = last'.p

\* C6: call_elevator_for selects, among the free elevators whose bounds cover
\* both floors of the person, one nearest to the person's floor, the first in
\* order on ties; it sets that elevator's destination to the person's floor
\* and changes no other elevator; it returns None and changes nothing when
\* there is no such elevator.
C6_NearestFreeElevator ==
    [][IsCall =>
         LET among == Eligible(elevators, CalledPerson)
         IN  IF among = {}
             THEN last'.res = "ok" /\ last'.e = 0 /\ elevators' = elevators
             ELSE LET best == Nearest(elevators, CalledPerson, among)
                  IN  /\ last'.res = "ok"
                      /\ last'.e = best
                      /\ elevators' = [elevators EXCEPT
                                         ![best].moving_to = Some(CalledPerson.enter_floor)]]_vars

\* C7: in a tick, call_elevator_for never selects an elevator that has
\* people aboard.
C7_DispatchesIdleOnly ==
    (pc = "call" /\ last.op = "call_elevator_for" /\ last.e # 0)
    => elevators[last.e].people = << >>

\* The elevators at the person's floor whose bounds cover the person's exit floor.
Boardable(els, person) ==
    { i \in 1..Len(els) :
        els[i].floor = person.enter_floor /\ InBounds(els[i], person.exit_floor) }

\* The first of them in the order of the collection, 0 when there is none.
FirstBoardable(els, person) ==
    IF Boardable(els, person) = {} THEN 0
    ELSE CHOOSE i \in Boardable(els, person) : \A j \in Boardable(els, person) : i <= j

\* C8: elevator_for returns the first elevator in order that is at the
\* person's floor and whose bounds cover the person's exit floor, and None when
\* there is none; every person aboard an elevator entered it at the floor the
\* person waited at, and has an exit floor within that elevator's bounds.
C8_ElevatorForBoarding ==
    /\ [](/\ \A person \in Range(waiting_for_elevator) :
                elevator_for(elevators, person) = FirstBoardable(elevators, person)
          /\ \A i \in 1..Len(elevators) : \A person \in Range(elevators[i].people) :
                InBounds(elevators[i], person.exit_floor))
    /\ [][\A i \in 1..Len(elevators) :
            \A person \in Range(elevators'[i].people) \ Range(elevators[i].people) :
                /\ person \in Range(waiting_for_elevator)
                /\ elevators[i].floor = person.enter_floor
                /\ elevators'[i].floor = person.enter_floor
                /\ i = FirstBoardable(elevators, person)]_vars

\* C8 witness: a person has entered the second elevator while the first one
\* stood at the same floor.
C8_Witness ==
    /\ last.op = "board"
    /\ Len(elevators) = 2
    /\ elevators[2].people # << >>
    /\ elevators[1].floor = elevators[2].floor
    /\ elevators[1].people = << >>

Ids(seq) == { seq[k].id : k \in 1..Len(seq) }

RECURSIVE SumPeople(_, _)
SumPeople(els, i) == IF i > Len(els) THEN 0 ELSE Len(els[i].people) + SumPeople(els, i + 1)

\* C9: no person is both waiting and aboard an elevator, no person is aboard
\* more than one elevator or aboard one elevator twice, and entering an
\* elevator removes exactly that person from the waiting list.
C9_WaitingListIntegrity ==
    /\ [](/\ Ids(waiting_for_elevator) \cap Aboard(elevators) = {}
          /\ SumPeople(elevators, 1) = Cardinality(Aboard(elevators)))
    /\ [][LET entered == Aboard(elevators') \ Aboard(elevators)
          IN  /\ entered \subseteq Ids(waiting_for_elevator)
              /\ (entered # {} \/ pc = "left") =>
                     waiting_for_elevator' =
                         SelectSeq(waiting_for_elevator, LAMBDA x : x.id \notin entered)]_vars

\* C9 witness: of two persons waiting, one has entered an elevator and the
\* other is still waiting.
C9_Witness ==
    /\ last.op = "board"
    /\ Aboard(elevators) # {}
    /\ waiting_for_elevator # << >>

\* C10: when the first step of a tick has finished, no elevator has aboard a
\* person whose exit floor is the elevator's current floor.
C10_AllLeaversRemoved ==
    pc = "left" =>
        \A i \in 1..Len(elevators) : \A person \in Range(elevators[i].people) :
            person.exit_floor # elevators[i].floor

\* C11: when the second step of a tick has finished, no person is left in the
\* waiting list for whom elevator_for finds an elevator (one standing at the
\* person's enter floor whose bounds cover the exit floor), and the door of
\* every elevator that a person entered in that step is open.
C11_AllBoardableBoarded ==
    /\ [](last.op = "board" =>
              \A person \in Range(waiting_for_elevator) :
                  elevator_for(elevators, person) = 0)
    /\ [][pc = "left" =>
              \A i \in 1..Len(elevators) :
                  Len(elevators'[i].people) > Len(elevators[i].people) =>
                      elevators'[i].is_open]_vars

\* C12: the last step of a tick calls move() on every elevator of the
\* controller, in order; when the move of one elevator fails, the elevators
\* after it are still moved in that tick.
C12_EveryElevatorMoves ==
    [][(pc = "call" /\ pc' = "idle" /\ last'.op = "move_elevators") =>
           \A i \in 1..Len(elevators) :
               elevators'[i] = move(elevators[i]).e]_vars

\* The floors of the person lie within the bounds of no elevator at all.
OutsideEveryElevator(els, person) ==
    \A i \in 1..Len(els) :
        ~InBounds(els[i], person.enter_floor) /\ ~InBounds(els[i], person.exit_floor)

\* C13: under the orchestration, from freshly constructed elevators and any
\* persons entering (also persons whose floors no elevator serves), the
\* destination of every elevator, whenever it is set, lies within the
\* elevator's bounds, and no tick ends on a floor-bound error.
C13_DestinationWithinBounds ==
    /\ \A i \in 1..Len(elevators) :
           elevators[i].moving_to # None =>
               InBounds(elevators[i], elevators[i].moving_to[1])
    /\ last.res # "bound"

\* C13 witness: a tick has ended with an elevator on its way to a destination
\* while a person whose floors no elevator serves is waiting.
C13_Witness ==
    /\ last.op = "move_elevators"
    /\ \E i \in 1..Len(elevators) :
           elevators[i].moving_to # None /\ elevators[i].floor # 0
    /\ \E person \in Range(waiting_for_elevator) :
           OutsideEveryElevator(elevators, person)

\* C14: an up-step at the highest floor and a down-step at the lowest floor
\* fail with an error and leave the floor unchanged; at every other floor a
\* step made with the door closed succeeds and changes the floor by exactly
\* one, upwards for up_1 and downwards for down_1.
C14_StepAtBounds ==
    [][last'.op \in {"up_1", "down_1"} =>
           LET e == elevators[last'.e]
               after == elevators'[last'.e]
           IN  IF ~StepStaysInBounds(e, last'.op)
               THEN last'.res # "ok" /\ after.floor = e.floor
               ELSE ~e.is_open =>
                        /\ last'.res = "ok"
                        /\ after.floor =
                               IF last'.op = "up_1" THEN e.floor + 1 ELSE e.floor - 1]_vars

\* C14 witness: a down-step has just been refused at the lowest floor with
\* the door closed.
C14_Witness ==
    /\ last.op = "down_1"
    /\ last.res = "bound"
    /\ ~elevators[last.e].is_open
    /\ elevators[last.e].floor = elevators[last.e].LOWEST_FLOOR

\* The scenario's person and where the person is.
Jackson == Person(1, 2, -1)
JacksonWaiting == waiting_for_elevator = << Jackson >>
JacksonAboard == elevators[1].people = << Jackson >>
BetweenTicks(n) == pc = "idle" /\ ticks = n /\ (JacksonWaiting \/ JacksonAboard)

\* C15 as stated: with the lift (-1, 4) at floor 0 and Jackson (2 to -1) the
\* only person waiting, tick 1 ends with the lift assigned to floor 2 and at
\* floor 1; tick 2 ends with the lift at floor 2 and Jackson aboard; later the
\* lift goes down to floor -1, where Jackson is removed and the lift is free.
C15_Original ==
    /\ [](BetweenTicks(1) =>
              /\ JacksonWaiting
              /\ elevators[1].moving_to = Some(2)
              /\ elevators[1].floor = 1)
    /\ [](BetweenTicks(2) => elevators[1].floor = 2 /\ JacksonAboard)
    /\ [][JacksonAboard /\ ~JacksonAboard' =>
              /\ elevators[1].floor = -1
              /\ elevators'[1].people = << >>
              /\ is_free(elevators'[1])]_vars

\* C15, tick by tick as the code runs it: tick 1 assigns the lift to floor 2
\* and steps it to floor 1; tick 2 steps it to floor 2, where Jackson is still
\* waiting and the door is closed; the second step of tick 3 opens the door
\* and boards Jackson; ticks 3, 4 and 5 end at floors 1, 0 and -1 with Jackson
\* aboard; the first step of tick 6 removes Jackson at floor -1 and leaves
\* the lift free, its destination unset.
C15_JacksonRide ==
    /\ [](/\ BetweenTicks(1) =>
                 /\ JacksonWaiting
                 /\ elevators[1].moving_to = Some(2)
                 /\ elevators[1].floor = 1
          /\ BetweenTicks(2) =>
                 /\ JacksonWaiting
                 /\ elevators[1].floor = 2
                 /\ ~elevators[1].is_open
          /\ (ticks = 2 /\ pc = "call" /\ (JacksonWaiting \/ JacksonAboard)) =>
                 /\ JacksonAboard
                 /\ elevators[1].is_open
                 /\ elevators[1].floor = 2
          /\ BetweenTicks(3) => JacksonAboard /\ elevators[1].floor = 1
          /\ BetweenTicks(4) => JacksonAboard /\ elevators[1].floor = 0
          /\ BetweenTicks(5) => JacksonAboard /\ elevators[1].floor = -1
          /\ ~BetweenTicks(6))
    /\ [][JacksonAboard /\ ~JacksonAboard' =>
              /\ ticks = 5
              /\ pc = "idle"
              /\ elevators[1].floor = -1
              /\ elevators'[1].people = << >>
              /\ elevators'[1].moving_to = None
              /\ is_free(elevators'[1])]_vars

\* C15 witness: five ticks have ended and the lift stands at floor -1 with
\* Jackson aboard, about to be removed.
C15_Witness ==
    /\ BetweenTicks(5)
    /\ JacksonAboard
    /\ elevators[1].floor = -1

\* Both bounds are integers with lowest <= 0 < highest.
ValidBounds(lowest_floor, highest_floor) ==
    /\ lowest_floor.type = "int"
    /\ highest_floor.type = "int"
    /\ lowest_floor.twice <= 0
    /\ 0 < highest_floor.twice

\* C16: constructing an elevator succeeds exactly when both bounds are
\* integers with lowest <= 0 < highest; the elevator then stands at floor 0
\* with its door closed, no destination and nobody aboard; for every other
\* pair of bounds, a non-integer lowest or highest bound included, the
\* construction raises an error and no elevator comes to exist.
C16_Construction ==
    [][last'.op = "Elevator" =>
           LET lowest_floor == last'.args[1]
               highest_floor == last'.args[2]
           IN  IF ValidBounds(lowest_floor, highest_floor)
               THEN /\ last'.res = "ok"
                    /\ elevators' =
                           Append(elevators,
                                  [LOWEST_FLOOR |-> lowest_floor.twice \div 2,
                                   HIGHEST_FLOOR |-> highest_floor.twice \div 2,
                                   floor |-> 0, moving_to |-> None,
                                   is_open |-> FALSE, people |-> << >>])
               ELSE /\ last'.res # "ok"
                    /\ elevators' = elevators]_vars

\* C17: an elevator whose last aboard person leaves in the first step of a
\* tick has its destination cleared and is free, and, the second step not
\* touching destinations, it is among the free elevators that
\* call_elevator_for chooses from when the third step of that tick begins.
C17_VacatedElevatorIsFree ==
    [][/\ (pc = "idle" /\ pc' = "left") =>
              \A i \in 1..Len(elevators) :
                  (elevators[i].people # << >> /\ elevators'[i].people = << >>) =>
                      /\ elevators'[i].moving_to = None
                      /\ is_free(elevators'[i])
       /\ (pc = "left" /\ pc' = "call") =>
              \A i \in 1..Len(elevators) :
                  (elevators[i].is_open /\ elevators[i].people = << >>) =>
                      /\ elevators'[i].moving_to = None
                      /\ i \in Range(free_elevators(elevators').free)]_vars

\* C17 witness: in the third step of a tick call_elevator_for has chosen an
\* elevator that a person left empty in the first step of that tick (its door
\* is still open and nobody is aboard).
C17_Witness ==
    /\ pc = "call"
    /\ last.op = "call_elevator_for"
    /\ last.res = "ok"
    /\ last.e # 0
    /\ elevators[last.e].is_open
    /\ elevators[last.e].people = << >>
    /\ elevators[last.e].floor # 0

\* The side of the elevator's floor a floor lies on: 1 above, -1 below, 0 at it.
Side(e, floor) == IF floor > e.floor THEN 1 ELSE IF floor < e.floor THEN -1 ELSE 0

\* The exit floors of the persons aboard, in boarding order, that lie strictly
\* on the side of the first-boarded person's exit floor.
ExpectedQueue(e) ==
    LET exits == [j \in 1..Len(e.people) |-> e.people[j].exit_floor]
    IN  SelectSeq(exits, LAMBDA floor :
                             Side(e, floor) # 0 /\ Side(e, floor) = Side(e, exits[1]))

\* The destination after the second step of move(): the last element of a
\* stop queue that is not empty, else the destination as it was.
ExpectedTarget(e) ==
    IF e.people # << >> /\ ExpectedQueue(e) # << >>
    THEN Some(ExpectedQueue(e)[Len(ExpectedQueue(e))])
    ELSE e.moving_to

\* C18: stop_queue is None when nobody is aboard, and otherwise the exit
\* floors of the persons aboard, in boarding order, that lie strictly on the
\* same side of the floor as the first-boarded person's exit floor (empty
\* when that exit floor is the floor); move() sets the destination to the
\* last element of a stop queue that is not empty and otherwise leaves the
\* destination to its last step, which keeps it when the elevator steps and
\* clears it when the direction is NOWHERE.
C18_StopQueue ==
    /\ [](\A i \in 1..Len(elevators) :
              LET e == elevators[i]
              IN  /\ stop_queue(e).some <=> e.people # << >>
                  /\ stop_queue(e).some => stop_queue(e).q = ExpectedQueue(e))
    /\ [][(pc = "call" /\ pc' = "idle" /\ last'.op = "move_elevators" /\ last'.res = "ok") =>
              \A i \in 1..Len(elevators) :
                  LET target == ExpectedTarget(elevators[i])
                      retargeted == [elevators[i] EXCEPT !.moving_to = target]
                  IN  elevators'[i].moving_to =
                          IF direction(retargeted) = NOWHERE THEN None ELSE target]_vars

\* C18 witness: a tick has ended with two persons aboard whose exit floors lie
\* on different sides, the elevator heading for the first-boarded person's
\* exit floor.
C18_Witness ==
    /\ last.op = "move_elevators"
    /\ \E i \in 1..Len(elevators) :
           LET e == elevators[i]
           IN  /\ Len(e.people) = 2
               /\ e.people[2].exit_floor < e.floor
               /\ e.floor <= e.people[1].exit_floor
               /\ e.moving_to = Some(e.people[1].exit_floor)

\* C19: one tick changes the floor of each elevator by at most one (the floor
\* changes only in the tick's last step, by one), the door of every elevator
\* is closed when the tick ends, and an elevator whose direction is NOWHERE
\* when move() comes to it keeps its floor and ends the tick with its
\* destination unset.
C19_OneTick ==
    [][/\ \A i \in 1..Len(elevators) :
              elevators'[i].floor # elevators[i].floor =>
                  /\ pc = "call" /\ pc' = "idle" /\ last'.op = "move_elevators"
                  /\ Abs(elevators'[i].floor - elevators[i].floor) = 1
       /\ (pc # "idle" /\ pc' = "idle") =>
              \A i \in 1..Len(elevators) : ~elevators'[i].is_open
       /\ (pc = "call" /\ pc' = "idle" /\ last'.op = "move_elevators") =>
              \A i \in 1..Len(elevators) :
                  LET retargeted ==
                          [elevators[i] EXCEPT !.moving_to = ExpectedTarget(elevators[i])]
                  IN  direction(retargeted) = NOWHERE =>
                          /\ elevators'[i].floor = elevators[i].floor
                          /\ elevators'[i].moving_to = None]_vars

\* C19 witness: a tick has ended in which one elevator, boarded in that tick,
\* has stepped one floor away and another has stayed, its destination unset.
C19_Witness ==
    /\ pc = "idle"
    /\ last.op = "move_elevators"
    /\ \E i, j \in 1..Len(elevators) :
           /\ elevators[i].people # << >>
           /\ Abs(elevators[i].floor - elevators[i].people[1].enter_floor) = 1
           /\ ~elevators[i].is_open
           /\ elevators[j].people = << >>
           /\ elevators[j].moving_to = None

\* C20: with Program.next called again and again, every person who is aboard
\* an elevator is eventually removed from it (which Program.next does only at
\* the person's exit floor), whatever the exit floor within the elevator's
\* bounds and whoever else is aboard.
C20_AboardEventuallyLeaves ==
    \A p \in PersonIds : (p \in Aboard(elevators)) ~> (p \notin Aboard(elevators))

====
